---- MODULE Spec2Model ----
(***************************************************************************)
(* whisper-dictate: the single-instance protocol around the PID file       *)
(* (utils.py), the main entry point (cli.py), the recorder window's        *)
(* lifecycle (window.py) and the audio recorder (recorder.py).             *)
(*                                                                         *)
(* Every invocation of the program is one process p \in Procs; its process *)
(* identifier is p.  The PID file /tmp/whisper-dictate.pid is `marker'.    *)
(* A process has a main (Qt/controller) thread whose position is pc[p], a  *)
(* PyAudio callback thread (AudioCallback) and at most one daemon thread   *)
(* running _transcribe_thread, whose position is thread[p].                *)
(*                                                                         *)
(* Granularity: one action per file-system or signal system call of        *)
(* is_already_running / write_pid, one action per Qt slot or event handler *)
(* (a slot runs to completion on the main thread), one action per blocking *)
(* step of the transcription thread.  Process identifiers are not reused:  *)
(* a process that ended stays dead for os.kill.  A window whose closeEvent *)
(* accepts the event is the last window, so app.exec() returns.            *)
(***************************************************************************)
EXTENDS Naturals, Integers, FiniteSets, Sequences

\* ---------------------------------------------------------------- bounds
\* Number of program invocations (processes) considered.
NumProcs == 2
\* Number of SIGTERM/SIGINT signals the environment sends to one process.
MaxTerm == 1
\* Number of audio chunks the PyAudio callback delivers in one recording.
MaxFrames == 1

Procs == 1..NumProcs

\* Content of the PID file when it does not exist.
NoPid == 0

VARIABLES
  marker,        \* PID file: NoPid when absent, else the pid written in it
  pc,            \* main thread position of each process
  pid,           \* local `pid' of is_already_running (utils.py:27)
  found,         \* what is_already_running observed: none/absent/live/stale
  outcome,       \* none / Claimed (write_pid done) / SignaledExisting
  sigSent,       \* number of SIGUSR1 signals the process delivered to a peer
  usr1Handler,   \* sigusr1_handler installed (cli.py:179)
  termHandler,   \* sigterm_handler installed (cli.py:187-188)
  usr1Pending,   \* a SIGUSR1 is pending for the process
  termPending,   \* a SIGTERM/SIGINT is pending for the process
  termCount,     \* SIGTERM/SIGINT signals sent to the process so far
  outputMode,    \* config.general.output_mode as read at window.py:176, else "unread"
  win,           \* RecorderWindow: none / shown / closed
  recording,     \* RecorderWindow.recording
  startTimer,    \* QTimer.singleShot(100, self.start_recording) pending
  closeTimer,    \* QTimer.singleShot(100, self.close) pending
  doneQueued,    \* transcription_done emitted by the thread, queued for main
  recRecording,  \* AudioRecorder.recording
  stream,        \* AudioRecorder.stream is open
  frames,        \* len(AudioRecorder.audio_frames)
  tempFile,      \* temp .wav file: none / present / deleted
  thread,        \* _transcribe_thread: none/transcribing/delivering/finally/finished/killed
  text,          \* local `text' of _transcribe_thread: "none", "" or "t"
  stops,         \* number of calls of AudioRecorder.stop()
  stoppedBy,     \* caller of the stop_and_transcribe that took effect
  tasks,         \* number of transcription threads started
  terminated,    \* number of calls of AudioRecorder.cleanup() (p.terminate())
  tempCleaned,   \* number of calls of AudioRecorder.cleanup_temp_file()
  releases,      \* number of calls of cleanup_pid()
  emitted        \* argument of transcription_done.emit: "none", "" or "t"

\* _transcribe_thread taken alone (TranscribeSpec): one run of it.
VARIABLES
  tPc,           \* position: call, wait (in subprocess.run), ret, mode, finally, done
  tChild,        \* the whisper-cli child: none / running / exited / killed
  tStatus,       \* exit status of the child once exited
  tStdout,       \* what the child writes on its stdout, a sequence of characters
  tExpired,      \* subprocess.run raised TimeoutExpired
  tRet,          \* value returned by transcribe, a sequence of characters
  tText,         \* local `text' of _transcribe_thread
  tMode,         \* config.general.output_mode: "clipboard" or "type"
  tClipboard,    \* arguments of the calls of copy_to_clipboard, in order
  tTyped,        \* arguments of the calls of type_text, in order
  tEmitted       \* arguments of the calls of transcription_done.emit, in order

\* What the thread did with its result.
sinkVars == << tText, tMode, tClipboard, tTyped, tEmitted >>
trVars == << tPc, tChild, tStatus, tStdout, tExpired, tRet, sinkVars >>

\* AudioRecorder taken alone (RecorderSpec): one recording.
VARIABLES
  rPc,           \* main thread: new, capturing, stopping, save, stopped
  rFlag,         \* AudioRecorder.recording
  rFrames,       \* AudioRecorder.audio_frames, a sequence of chunks
  rOpen,         \* the stream is open and active
  cbPc,          \* callback thread: idle, or "append" past `if self.recording'
  cbChunk,       \* in_data of the callback in progress
  rAccepted,     \* chunks whose callback found recording set, in arrival order
  rDelivered,    \* number of callbacks made so far
  rWav,          \* audio data of the WAV file, a sequence of bytes
  rWritten,      \* the WAV file has been written
  rOverlap,      \* a callback appended its chunk after stop() had begun
  rObserver,     \* a level_callback was given to AudioRecorder(...)
  rNotified,     \* chunks for which level_callback was called, in order
  rStops,        \* number of calls of stop()
  rRet           \* what the last stop() returned: "unset", "None" or "Path"

rcVars == << rPc, rFlag, rFrames, rOpen, cbPc, cbChunk, rAccepted, rDelivered,
            rWav, rWritten, rOverlap, rObserver, rNotified, rStops, rRet >>

\* The audio level of one chunk (LevelSpec).
VARIABLES
  lvPc,          \* "chunk" before the level is computed, "level" after
  lvChunk,       \* in_data as a sequence of sample words
  lvNum,         \* numerator of the level
  lvDen          \* denominator of the level

lvVars == << lvPc, lvChunk, lvNum, lvDen >>

\* RecorderWindow with its three threads, taken alone (WindowSpec).
VARIABLES
  wRecording,    \* RecorderWindow.recording
  wCapture,      \* AudioRecorder.recording, the stream is open
  wFrames,       \* len(AudioRecorder.audio_frames)
  wQueue,        \* events posted to the main thread, in posting order
  wTask,         \* _transcribe_thread: none, running, finally, finished
  wLevels,       \* number of calls of visualizer.set_audio_level
  wDone,         \* number of runs of _on_transcription_done
  wWin,          \* the window: shown or closed
  wStartTimer,   \* QTimer.singleShot(100, self.start_recording) pending
  wCloseTimer    \* QTimer.singleShot(100, self.close) pending

wnVars == << wRecording, wCapture, wFrames, wQueue, wTask, wLevels, wDone, wWin,
            wStartTimer, wCloseTimer >>

\* Variables of the specifications of single components, further down.
unitVars == << trVars, rcVars, lvVars, wnVars >>

sessionVars == << marker, pc, pid, found, outcome, sigSent, usr1Handler, termHandler,
           usr1Pending, termPending, termCount, outputMode, win, recording,
           startTimer, closeTimer, doneQueued, recRecording, stream, frames,
           tempFile, thread, text, stops, stoppedBy, tasks, terminated, tempCleaned,
           releases, emitted >>

vars == << sessionVars, unitVars >>

\* Variables of the claim protocol local to a process.
claimVars == << pid, found, outcome, sigSent >>
\* Signal plumbing.
sigVars == << usr1Handler, termHandler, usr1Pending, termPending, termCount >>
\* Window and timers.
winVars == << win, recording, startTimer, closeTimer, doneQueued, stoppedBy,
             emitted >>
\* Recorder.
recVars == << recRecording, stream, frames, tempFile, stops, terminated, tempCleaned >>
\* Transcription thread.
thrVars == << thread, text, tasks >>

\* A process that exists for os.kill: one of the invocations considered,
\* started and neither exited nor died.
Alive(p) == p \in Procs /\ pc[p] \notin {"idle", "done", "crashed", "killed"}

\* No invocation has started yet.
ProcsInit ==
  /\ pc = [p \in Procs |-> "idle"]
  /\ pid = [p \in Procs |-> NoPid]
  /\ found = [p \in Procs |-> "none"]
  /\ outcome = [p \in Procs |-> "none"]
  /\ sigSent = [p \in Procs |-> 0]
  /\ usr1Handler = [p \in Procs |-> FALSE]
  /\ termHandler = [p \in Procs |-> FALSE]
  /\ usr1Pending = [p \in Procs |-> FALSE]
  /\ termPending = [p \in Procs |-> FALSE]
  /\ termCount = [p \in Procs |-> 0]
  /\ outputMode = [p \in Procs |-> "unread"]
  /\ win = [p \in Procs |-> "none"]
  /\ recording = [p \in Procs |-> FALSE]
  /\ startTimer = [p \in Procs |-> FALSE]
  /\ closeTimer = [p \in Procs |-> FALSE]
  /\ doneQueued = [p \in Procs |-> FALSE]
  /\ recRecording = [p \in Procs |-> FALSE]
  /\ stream = [p \in Procs |-> FALSE]
  /\ frames = [p \in Procs |-> 0]
  /\ tempFile = [p \in Procs |-> "none"]
  /\ thread = [p \in Procs |-> "none"]
  /\ text = [p \in Procs |-> "none"]
  /\ stops = [p \in Procs |-> 0]
  /\ stoppedBy = [p \in Procs |-> "none"]
  /\ tasks = [p \in Procs |-> 0]
  /\ terminated = [p \in Procs |-> 0]
  /\ tempCleaned = [p \in Procs |-> 0]
  /\ releases = [p \in Procs |-> 0]
  /\ emitted = [p \in Procs |-> "none"]

\* No PID file and no invocation yet.
SessionInit == marker = NoPid /\ ProcsInit

\* No run of _transcribe_thread alone is under way.
TrIdle ==
  /\ tPc = "call"
  /\ tChild = "none"
  /\ tStatus = 0
  /\ tStdout = << >>
  /\ tExpired = FALSE
  /\ tRet = << >>
  /\ tText = << >>
  /\ tMode = "clipboard"
  /\ tClipboard = << >>
  /\ tTyped = << >>
  /\ tEmitted = << >>

\* No recording of the recorder alone is under way.
RcIdle ==
  /\ rPc = "new"
  /\ rFlag = FALSE
  /\ rFrames = << >>
  /\ rOpen = FALSE
  /\ cbPc = "idle"
  /\ cbChunk = << >>
  /\ rAccepted = << >>
  /\ rDelivered = 0
  /\ rWav = << >>
  /\ rWritten = FALSE
  /\ rOverlap = FALSE
  /\ rObserver = TRUE
  /\ rNotified = << >>
  /\ rStops = 0
  /\ rRet = "unset"

\* No level is being computed.
LvIdle ==
  /\ lvPc = "chunk"
  /\ lvChunk = << >>
  /\ lvNum = 0
  /\ lvDen = 1

\* The window as shown by main, before any timer or event.
WnIdle ==
  /\ wRecording = FALSE
  /\ wCapture = FALSE
  /\ wFrames = 0
  /\ wQueue = << >>
  /\ wTask = "none"
  /\ wLevels = 0
  /\ wDone = 0
  /\ wWin = "shown"
  /\ wStartTimer = TRUE
  /\ wCloseTimer = FALSE

Init == SessionInit /\ TrIdle /\ RcIdle /\ LvIdle /\ WnIdle

\* ------------------------------------------------------------ cli.main, start
\* A new invocation: argument parsing, load_config and the CLI overrides, up
\* to the call of is_already_running.  Invocations are numbered in the order
\* they start.
Start(p) ==
  /\ pc[p] = "idle"
  /\ \A q \in Procs : q < p => pc[q] # "idle"
  /\ pc' = [pc EXCEPT ![p] = "check"]
  /\ UNCHANGED << marker, claimVars, sigVars, outputMode, winVars, recVars,
                  thrVars, releases,
                  unitVars >>

\* ------------------------------------------------- utils.is_already_running
\* PID_FILE.exists()
IsRunningExists(p) ==
  /\ pc[p] = "check"
  /\ IF marker # NoPid
       THEN /\ pc' = [pc EXCEPT ![p] = "read"]
            /\ UNCHANGED found
       ELSE /\ pc' = [pc EXCEPT ![p] = "write"]
            /\ found' = [found EXCEPT ![p] = "absent"]
  /\ UNCHANGED << marker, pid, outcome, sigSent, sigVars, outputMode, winVars,
                  recVars, thrVars, releases,
                  unitVars >>

\* pid = int(PID_FILE.read_text().strip()); a file removed since exists()
\* raises FileNotFoundError, which is not caught: the process ends.
IsRunningRead(p) ==
  /\ pc[p] = "read"
  /\ IF marker = NoPid
       THEN /\ pc' = [pc EXCEPT ![p] = "crashed"]
            /\ UNCHANGED pid
       ELSE /\ pc' = [pc EXCEPT ![p] = "probe"]
            /\ pid' = [pid EXCEPT ![p] = marker]
  /\ UNCHANGED << marker, found, outcome, sigSent, sigVars, outputMode, winVars,
                  recVars, thrVars, releases,
                  unitVars >>

\* os.kill(pid, 0); ProcessLookupError leads to the except branch.
IsRunningProbe(p) ==
  /\ pc[p] = "probe"
  /\ IF Alive(pid[p])
       THEN /\ pc' = [pc EXCEPT ![p] = "signal"]
            /\ found' = [found EXCEPT ![p] = "live"]
       ELSE /\ pc' = [pc EXCEPT ![p] = "unlink"]
            /\ found' = [found EXCEPT ![p] = "stale"]
  /\ UNCHANGED << marker, pid, outcome, sigSent, sigVars, outputMode, winVars,
                  recVars, thrVars, releases,
                  unitVars >>

\* The effect on process q of a signal whose handler is not installed: the
\* default action of SIGUSR1, SIGTERM and SIGINT ends the process, and its
\* daemon thread with it.
KilledPc(q) == [pc EXCEPT ![q] = "killed"]
KilledThread(q) ==
  [thread EXCEPT ![q] = IF @ \in {"none", "finished"} THEN @ ELSE "killed"]

\* Mutant of IsRunningSignal: the signal is sent but `return True' is
\* missing, so the caller goes on to write_pid.
IsRunningSignal_FallsThrough(p) ==
  /\ pc[p] = "signal"
  /\ Alive(pid[p])
  /\ usr1Handler[pid[p]]
  /\ sigSent' = [sigSent EXCEPT ![p] = @ + 1]
  /\ usr1Pending' = [usr1Pending EXCEPT ![pid[p]] = TRUE]
  /\ pc' = [pc EXCEPT ![p] = "write"]
  /\ UNCHANGED << marker, pid, found, outcome, usr1Handler, termHandler,
                  termPending, termCount, outputMode, winVars, recVars, thrVars,
                  releases,
                  unitVars >>

\* os.kill(pid, signal.SIGUSR1); return True; and main's sys.exit(0).
\* If the process died since the probe, ProcessLookupError leads to the
\* except branch.
IsRunningSignal(p) ==
  /\ pc[p] = "signal"
  /\ LET q == pid[p] IN
     IF Alive(q)
       THEN /\ sigSent' = [sigSent EXCEPT ![p] = @ + 1]
            /\ outcome' = [outcome EXCEPT ![p] = "SignaledExisting"]
            /\ IF usr1Handler[q]
                 THEN /\ usr1Pending' = [usr1Pending EXCEPT ![q] = TRUE]
                      /\ pc' = [pc EXCEPT ![p] = "done"]
                      /\ UNCHANGED thread
                 ELSE /\ pc' = [KilledPc(q) EXCEPT ![p] = "done"]
                      /\ thread' = KilledThread(q)
                      /\ UNCHANGED usr1Pending
            /\ UNCHANGED found
       ELSE /\ pc' = [pc EXCEPT ![p] = "unlink"]
            /\ found' = [found EXCEPT ![p] = "stale"]
            /\ UNCHANGED << sigSent, outcome, usr1Pending, thread >>
  /\ UNCHANGED << marker, pid, usr1Handler, termHandler, termPending, termCount,
                  outputMode, winVars, recVars, text, tasks, releases,
                  unitVars >>

\* Mutant of IsRunningUnlink: the stale file is not removed.
IsRunningUnlink_Keep(p) ==
  /\ pc[p] = "unlink"
  /\ pc' = [pc EXCEPT ![p] = "write"]
  /\ UNCHANGED << marker, claimVars, sigVars, outputMode, winVars, recVars,
                  thrVars, releases,
                  unitVars >>

\* PID_FILE.unlink(missing_ok=True); return False
IsRunningUnlink(p) ==
  /\ pc[p] = "unlink"
  /\ marker' = NoPid
  /\ pc' = [pc EXCEPT ![p] = "write"]
  /\ UNCHANGED << claimVars, sigVars, outputMode, winVars, recVars, thrVars,
                  releases,
                  unitVars >>

\* ------------------------------------------------------------ utils.write_pid
\* Mutant of WritePid: the file is written with the pid read from the old
\* marker (the local of is_already_running) instead of os.getpid().
WritePid_WrongPid(p) ==
  /\ pc[p] = "write"
  /\ marker' = pid[p]
  /\ outcome' = [outcome EXCEPT ![p] = "Claimed"]
  /\ pc' = [pc EXCEPT ![p] = "construct"]
  /\ UNCHANGED << pid, found, sigSent, sigVars, outputMode, winVars, recVars,
                  thrVars, releases,
                  unitVars >>

\* PID_FILE.write_text(str(os.getpid()))
WritePid(p) ==
  /\ pc[p] = "write"
  /\ marker' = p
  /\ outcome' = [outcome EXCEPT ![p] = "Claimed"]
  /\ pc' = [pc EXCEPT ![p] = "construct"]
  /\ UNCHANGED << pid, found, sigSent, sigVars, outputMode, winVars, recVars,
                  thrVars, releases,
                  unitVars >>

\* ------------------------------------------------------ cli.main, the window
\* QApplication(...), RecorderWindow(config), window.show().  The constructor
\* builds AudioRecorder (pyaudio.PyAudio()) and Transcriber, which raises
\* RuntimeError when no whisper-cli is found: the exception is not caught and
\* the process ends, after write_pid.  On success the window exists with
\* recording = False and the start_recording timer armed.
Construct(p) ==
  /\ pc[p] = "construct"
  /\ \/ /\ pc' = [pc EXCEPT ![p] = "crashed"]
        /\ UNCHANGED << win, startTimer >>
     \/ /\ pc' = [pc EXCEPT ![p] = "install_usr1"]
        /\ win' = [win EXCEPT ![p] = "shown"]
        /\ startTimer' = [startTimer EXCEPT ![p] = TRUE]
  /\ UNCHANGED << marker, claimVars, sigVars, outputMode, recording, closeTimer,
                  doneQueued, stoppedBy, recVars, thrVars, releases,
                  emitted, unitVars >>

\* signal.signal(signal.SIGUSR1, sigusr1_handler)
InstallUsr1(p) ==
  /\ pc[p] = "install_usr1"
  /\ usr1Handler' = [usr1Handler EXCEPT ![p] = TRUE]
  /\ pc' = [pc EXCEPT ![p] = "install_term"]
  /\ UNCHANGED << marker, claimVars, termHandler, usr1Pending, termPending,
                  termCount, outputMode, winVars, recVars, thrVars, releases,
                  unitVars >>

\* signal.signal(signal.SIGTERM, ...); signal.signal(signal.SIGINT, ...);
\* then app.exec() is entered.
InstallTerm(p) ==
  /\ pc[p] = "install_term"
  /\ termHandler' = [termHandler EXCEPT ![p] = TRUE]
  /\ pc' = [pc EXCEPT ![p] = "exec"]
  /\ UNCHANGED << marker, claimVars, usr1Handler, usr1Pending, termPending,
                  termCount, outputMode, winVars, recVars, thrVars, releases,
                  unitVars >>

\* ------------------------------------------------------------ recorder.py
\* Mutant of StopReturnsFile: the `and self.audio_frames' test is missing.
StopReturnsFile_IgnoresFrames(p) == recRecording[p] /\ tempFile[p] # "none"

\* AudioRecorder.stop() returns a path: it was recording, has a temp file
\* path and at least one frame.
StopReturnsFile(p) == recRecording[p] /\ tempFile[p] # "none" /\ frames[p] > 0

\* AudioRecorder._audio_callback, on the PyAudio thread.
AudioCallback(p) ==
  /\ Alive(p)
  /\ stream[p]
  /\ frames[p] < MaxFrames
  /\ frames' = [frames EXCEPT ![p] = IF recRecording[p] THEN @ + 1 ELSE @]
  /\ UNCHANGED << marker, pc, claimVars, sigVars, outputMode, winVars,
                  recRecording, stream, tempFile, stops, terminated, tempCleaned,
                  thrVars, releases,
                  unitVars >>

\* ------------------------------------------------------------ window.py
\* Mutant of StartRecording: __init__ calls start_recording() itself instead
\* of arming the timer, so recording starts before main installs handlers.
StartRecording_Immediate(p) ==
  /\ pc[p] \in {"install_usr1", "install_term", "exec"}
  /\ startTimer[p]
  /\ startTimer' = [startTimer EXCEPT ![p] = FALSE]
  /\ recording' = [recording EXCEPT ![p] = TRUE]
  /\ recRecording' = [recRecording EXCEPT ![p] = TRUE]
  /\ frames' = [frames EXCEPT ![p] = 0]
  /\ tempFile' = [tempFile EXCEPT ![p] = "present"]
  /\ stream' = [stream EXCEPT ![p] = TRUE]
  /\ UNCHANGED << marker, pc, claimVars, sigVars, outputMode, win, closeTimer,
                  doneQueued, stoppedBy, stops, terminated, tempCleaned, thrVars,
                  releases,
                  emitted, unitVars >>

\* Mutant of StartRecording: the timer is a repeating one, not a single
\* shot, so start_recording runs again after the session was stopped.
StartRecording_Repeating(p) ==
  /\ pc[p] = "exec"
  /\ startTimer[p]
  /\ ~recording[p]
  /\ recording' = [recording EXCEPT ![p] = TRUE]
  /\ recRecording' = [recRecording EXCEPT ![p] = TRUE]
  /\ frames' = [frames EXCEPT ![p] = 0]
  /\ tempFile' = [tempFile EXCEPT ![p] = "present"]
  /\ stream' = [stream EXCEPT ![p] = TRUE]
  /\ UNCHANGED << marker, pc, claimVars, sigVars, outputMode, win, startTimer,
                  closeTimer, doneQueued, stoppedBy, stops, terminated,
                  tempCleaned, thrVars, releases,
                  emitted, unitVars >>

\* RecorderWindow.start_recording, fired by the single-shot timer:
\* recorder.start() resets the frames, creates the temp file and opens the
\* stream.
StartRecording(p) ==
  /\ pc[p] = "exec"
  /\ startTimer[p]
  /\ startTimer' = [startTimer EXCEPT ![p] = FALSE]
  /\ recording' = [recording EXCEPT ![p] = TRUE]
  /\ recRecording' = [recRecording EXCEPT ![p] = TRUE]
  /\ frames' = [frames EXCEPT ![p] = 0]
  /\ tempFile' = [tempFile EXCEPT ![p] = "present"]
  /\ stream' = [stream EXCEPT ![p] = TRUE]
  /\ UNCHANGED << marker, pc, claimVars, sigVars, outputMode, win, closeTimer,
                  doneQueued, stoppedBy, stops, terminated, tempCleaned, thrVars,
                  releases,
                  emitted, unitVars >>

\* stop_and_transcribe goes past its guard `if not self.recording: return'.
StopTakesEffect(p) == recording[p]

\* stop_and_transcribe takes the else branch: transcription_done.emit("") on
\* the main thread, which runs _on_transcription_done at once.
StopEmitsDone(p) == StopTakesEffect(p) /\ ~StopReturnsFile(p)

\* RecorderWindow.stop_and_transcribe, as a slot run to completion.  `pre' is
\* the number of cleanup_pid() calls the caller made just before it (the
\* SIGTERM handler), `timer' the close timer's state if the slot leaves it, `caller' who called.
\* With audio a daemon thread is started; without, _on_transcription_done
\* runs inline: recorder.cleanup(), cleanup_pid(), QTimer.singleShot(close).
StopAndTranscribe(p, pre, timer, caller) ==
  /\ recording' = [recording EXCEPT ![p] = FALSE]
  /\ stoppedBy' = [stoppedBy EXCEPT ![p] = IF StopTakesEffect(p) THEN caller ELSE @]
  /\ stops' = [stops EXCEPT ![p] = IF StopTakesEffect(p) THEN @ + 1 ELSE @]
  /\ recRecording' = [recRecording EXCEPT ![p] = IF StopTakesEffect(p) THEN FALSE ELSE @]
  /\ stream' = [stream EXCEPT ![p] =
                  IF StopTakesEffect(p) /\ recRecording[p] THEN FALSE ELSE @]
  /\ thread' = [thread EXCEPT ![p] =
                  IF StopTakesEffect(p) /\ StopReturnsFile(p) THEN "transcribing" ELSE @]
  /\ tasks' = [tasks EXCEPT ![p] =
                  IF StopTakesEffect(p) /\ StopReturnsFile(p) THEN @ + 1 ELSE @]
  /\ terminated' = [terminated EXCEPT ![p] = IF StopEmitsDone(p) THEN @ + 1 ELSE @]
  /\ closeTimer' = [closeTimer EXCEPT ![p] = IF StopEmitsDone(p) THEN TRUE ELSE timer]
  /\ releases' = [releases EXCEPT ![p] = @ + pre + (IF StopEmitsDone(p) THEN 1 ELSE 0)]
  /\ marker' = IF pre > 0 \/ StopEmitsDone(p) THEN NoPid ELSE marker
  /\ emitted' = [emitted EXCEPT ![p] = IF StopEmitsDone(p) THEN "" ELSE @]

\* RecorderWindow.keyPressEvent with Escape or Space.
KeyPress(p) ==
  /\ pc[p] = "exec"
  /\ win[p] = "shown"
  /\ StopAndTranscribe(p, 0, closeTimer[p], "key")
  /\ UNCHANGED << pc, claimVars, sigVars, outputMode, win, startTimer, doneQueued,
                  frames, tempFile, tempCleaned, text,
                  unitVars >>

\* RecorderWindow.closeEvent.  While recording: stop_and_transcribe and
\* event.ignore().  Otherwise visualizer.stop(), cleanup_pid(),
\* event.accept(): the window closes and app.exec() returns.
CloseEvent(p, timer) ==
  IF recording[p]
    THEN /\ StopAndTranscribe(p, 0, timer, "close")
         /\ UNCHANGED << pc, win >>
    ELSE /\ win' = [win EXCEPT ![p] = "closed"]
         /\ pc' = [pc EXCEPT ![p] = "post_exec"]
         /\ releases' = [releases EXCEPT ![p] = @ + 1]
         /\ marker' = NoPid
         /\ closeTimer' = [closeTimer EXCEPT ![p] = timer]
         /\ UNCHANGED << recording, stoppedBy, stops, recRecording, stream, thread, tasks,
                         terminated, emitted >>

\* A close request from the window system.
CloseRequest(p) ==
  /\ pc[p] = "exec"
  /\ win[p] = "shown"
  /\ CloseEvent(p, closeTimer[p])
  /\ UNCHANGED << claimVars, sigVars, outputMode, startTimer, doneQueued,
                  frames, tempFile, tempCleaned, text,
                  unitVars >>

\* QTimer.singleShot(100, self.close) fires.
CloseTimerFire(p) ==
  /\ pc[p] = "exec"
  /\ closeTimer[p]
  /\ CloseEvent(p, FALSE)
  /\ UNCHANGED << claimVars, sigVars, outputMode, startTimer, doneQueued,
                  frames, tempFile, tempCleaned, text,
                  unitVars >>

\* RecorderWindow._on_transcription_done, delivered as a queued event from
\* the transcription thread.
OnTranscriptionDone(p) ==
  /\ pc[p] = "exec"
  /\ doneQueued[p]
  /\ doneQueued' = [doneQueued EXCEPT ![p] = FALSE]
  /\ terminated' = [terminated EXCEPT ![p] = @ + 1]
  /\ releases' = [releases EXCEPT ![p] = @ + 1]
  /\ marker' = NoPid
  /\ closeTimer' = [closeTimer EXCEPT ![p] = TRUE]
  /\ UNCHANGED << pc, claimVars, sigVars, outputMode, win, recording, startTimer,
                  stoppedBy, recRecording, stream, frames, tempFile, stops,
                  tempCleaned, thrVars,
                  emitted, unitVars >>

\* ------------------------------------------------------------ signals
\* Mutant of SigUsr1Handler: the handler returns without emitting stop_signal.
SigUsr1Handler_Ignore(p) ==
  /\ Alive(p)
  /\ usr1Pending[p]
  /\ usr1Pending' = [usr1Pending EXCEPT ![p] = FALSE]
  /\ UNCHANGED << marker, pc, claimVars, usr1Handler, termHandler, termPending,
                  termCount, outputMode, winVars, recVars, thrVars, releases,
                  unitVars >>

\* cli.sigusr1_handler, run on the main thread: window.stop_signal.emit()
\* calls the connected slot stop_and_transcribe directly.
SigUsr1Handler(p) ==
  /\ Alive(p)
  /\ usr1Pending[p]
  /\ usr1Pending' = [usr1Pending EXCEPT ![p] = FALSE]
  /\ StopAndTranscribe(p, 0, closeTimer[p], "usr1")
  /\ UNCHANGED << pc, claimVars, usr1Handler, termHandler, termPending, termCount,
                  outputMode, win, startTimer, doneQueued, frames, tempFile,
                  tempCleaned, text,
                  unitVars >>

\* cli.sigterm_handler (SIGTERM and SIGINT): cleanup_pid(), then
\* window.stop_signal.emit().
SigTermHandler(p) ==
  /\ Alive(p)
  /\ termPending[p]
  /\ termPending' = [termPending EXCEPT ![p] = FALSE]
  /\ StopAndTranscribe(p, 1, closeTimer[p], "term")
  /\ UNCHANGED << pc, claimVars, usr1Handler, termHandler, usr1Pending, termCount,
                  outputMode, win, startTimer, doneQueued, frames, tempFile,
                  tempCleaned, text,
                  unitVars >>

\* The environment sends SIGTERM or SIGINT to a process.  With the handler
\* installed the signal becomes pending; otherwise the default action ends
\* the process.
SendTerm(p) ==
  /\ Alive(p)
  /\ termCount[p] < MaxTerm
  /\ termCount' = [termCount EXCEPT ![p] = @ + 1]
  /\ IF termHandler[p]
       THEN /\ termPending' = [termPending EXCEPT ![p] = TRUE]
            /\ UNCHANGED << pc, thread >>
       ELSE /\ pc' = KilledPc(p)
            /\ thread' = KilledThread(p)
            /\ UNCHANGED termPending
  /\ UNCHANGED << marker, claimVars, usr1Handler, termHandler, usr1Pending,
                  outputMode, winVars, recVars, text, tasks, releases,
                  unitVars >>

\* ------------------------------------------------------------ cli.main, end
\* Mutant of PostExec: cleanup_pid unlinks without missing_ok=True, so that
\* FileNotFoundError ends main when the PID file is already gone.
PostExec_Strict(p) ==
  /\ pc[p] = "post_exec"
  /\ releases' = [releases EXCEPT ![p] = @ + 1]
  /\ marker' = NoPid
  /\ pc' = [pc EXCEPT ![p] = IF marker = NoPid THEN "crashed" ELSE "done"]
  /\ thread' = KilledThread(p)
  /\ UNCHANGED << claimVars, sigVars, outputMode, winVars, recVars, text,
                  tasks,
                  unitVars >>

\* After app.exec() returns: cleanup_pid(); sys.exit(ret).  The daemon
\* thread does not survive the exit of the process.
PostExec(p) ==
  /\ pc[p] = "post_exec"
  /\ releases' = [releases EXCEPT ![p] = @ + 1]
  /\ marker' = NoPid
  /\ pc' = [pc EXCEPT ![p] = "done"]
  /\ thread' = KilledThread(p)
  /\ UNCHANGED << claimVars, sigVars, outputMode, winVars, recVars, text,
                  tasks,
                  unitVars >>

\* ----------------------------------------- window._transcribe_thread (daemon)
\* text = self.transcriber.transcribe(audio_file): Transcriber.transcribe
\* returns the joined output lines, "" when they are all blank, and "" on
\* TimeoutExpired or any other exception.
ThreadTranscribe(p) ==
  /\ Alive(p)
  /\ thread[p] = "transcribing"
  /\ \E r \in {"text", "timeout", "error", "empty"} :
       /\ text' = [text EXCEPT ![p] = IF r = "text" THEN "t" ELSE ""]
       /\ thread' = [thread EXCEPT ![p] = IF r = "text" THEN "delivering" ELSE "finally"]
  /\ UNCHANGED << marker, pc, claimVars, sigVars, outputMode, winVars, recVars,
                  tasks, releases,
                  unitVars >>

\* if text: copy_to_clipboard(text); if output_mode == "type": type_text(text).
\* The output mode is the configuration's (or --type's), an input of the
\* invocation that nothing reads before this point.  A sink returns True or
\* False, or raises (subprocess.run raising anything but CalledProcessError);
\* an exception is caught by _transcribe_thread, which sets text = "" and
\* skips the rest of the try block.
ThreadDeliver(p) ==
  /\ Alive(p)
  /\ thread[p] = "delivering"
  /\ \E mode \in {"clipboard", "type"},
        clip \in {"ok", "fail", "raise"}, typ \in {"ok", "fail", "raise"} :
       /\ outputMode' = [outputMode EXCEPT ![p] = IF clip = "raise" THEN @ ELSE mode]
       /\ text' = [text EXCEPT ![p] =
                    IF clip = "raise" \/ (mode = "type" /\ typ = "raise")
                      THEN "" ELSE @]
  /\ thread' = [thread EXCEPT ![p] = "finally"]
  /\ UNCHANGED << marker, pc, claimVars, sigVars, winVars, recVars,
                  tasks, releases,
                  unitVars >>

\* Mutant of ThreadFinally: the temp file is removed but transcription_done
\* is not emitted.
ThreadFinally_NoEmit(p) ==
  /\ Alive(p)
  /\ thread[p] = "finally"
  /\ tempFile' = [tempFile EXCEPT ![p] = IF @ = "none" THEN @ ELSE "deleted"]
  /\ tempCleaned' = [tempCleaned EXCEPT ![p] = @ + 1]
  /\ thread' = [thread EXCEPT ![p] = "finished"]
  /\ UNCHANGED << marker, pc, claimVars, sigVars, outputMode, winVars, recRecording,
                  stream, frames, stops, terminated, text, tasks, releases,
                  unitVars >>

\* Mutant of ThreadFinally: transcription_done is connected directly, so the
\* emit runs _on_transcription_done on the transcription thread itself.
ThreadFinally_Direct(p) ==
  /\ Alive(p)
  /\ thread[p] = "finally"
  /\ tempFile' = [tempFile EXCEPT ![p] = IF @ = "none" THEN @ ELSE "deleted"]
  /\ tempCleaned' = [tempCleaned EXCEPT ![p] = @ + 1]
  /\ emitted' = [emitted EXCEPT ![p] = text[p]]
  /\ terminated' = [terminated EXCEPT ![p] = @ + 1]
  /\ releases' = [releases EXCEPT ![p] = @ + 1]
  /\ marker' = NoPid
  /\ closeTimer' = [closeTimer EXCEPT ![p] = TRUE]
  /\ thread' = [thread EXCEPT ![p] = "finished"]
  /\ UNCHANGED << pc, claimVars, sigVars, outputMode, win, recording,
                  startTimer, doneQueued, stoppedBy, recRecording, stream, frames,
                  stops, text, tasks,
                  unitVars >>

\* finally: self.recorder.cleanup_temp_file(); self.transcription_done.emit(text)
\* (queued to the main thread).
ThreadFinally(p) ==
  /\ Alive(p)
  /\ thread[p] = "finally"
  /\ tempFile' = [tempFile EXCEPT ![p] = IF @ = "none" THEN @ ELSE "deleted"]
  /\ tempCleaned' = [tempCleaned EXCEPT ![p] = @ + 1]
  /\ doneQueued' = [doneQueued EXCEPT ![p] = TRUE]
  /\ emitted' = [emitted EXCEPT ![p] = text[p]]
  /\ thread' = [thread EXCEPT ![p] = "finished"]
  /\ UNCHANGED << marker, pc, claimVars, sigVars, outputMode, win, recording,
                  startTimer, closeTimer, stoppedBy, recRecording, stream, frames,
                  stops, terminated, text, tasks, releases,
                  unitVars >>

\* ------------------------------------------------------------ specification
\* Steps of the main thread that need no further outside input.
Controller(p) ==
  \/ IsRunningExists(p) \/ IsRunningRead(p) \/ IsRunningProbe(p)
  \/ IsRunningSignal(p) \/ IsRunningUnlink(p) \/ WritePid(p)
  \/ Construct(p) \/ InstallUsr1(p) \/ InstallTerm(p)
  \/ StartRecording(p) \/ OnTranscriptionDone(p) \/ CloseTimerFire(p)
  \/ SigUsr1Handler(p) \/ SigTermHandler(p) \/ PostExec(p)

\* Steps of the transcription thread.
Thread(p) == ThreadTranscribe(p) \/ ThreadDeliver(p) \/ ThreadFinally(p)

\* Steps driven from outside the process.
Environment(p) ==
  Start(p) \/ AudioCallback(p) \/ KeyPress(p) \/ CloseRequest(p) \/ SendTerm(p)

Next == \E p \in Procs : Controller(p) \/ Thread(p) \/ Environment(p)

Spec == Init /\ [][Next]_vars

\* The event loop, the timers and the thread scheduler run every step that
\* stays possible: weak fairness of each process's main thread and of its
\* transcription thread.  Nothing is assumed of the environment.
FairSpec ==
  Spec /\ \A p \in Procs : WF_vars(Controller(p)) /\ WF_vars(Thread(p))

\* The pid of a process of an earlier run that ended without removing the
\* PID file (killed, or crashed after write_pid); it is no longer alive.
StalePid == NumProcs + 1

\* The invocations start with the PID file of that dead process in place.
StaleInit ==
  marker = StalePid /\ ProcsInit /\ TrIdle /\ RcIdle /\ LvIdle /\ WnIdle

StaleSpec == StaleInit /\ [][Next]_vars

\* ------------------------------- window._transcribe_thread, taken alone
\* One run of _transcribe_thread with Transcriber.transcribe inlined, for
\* every output the whisper-cli child can write and both output modes.
\* Text is a sequence of one-character strings.  The characters considered:
\* two letters, the space and the newline.
Chars == {"a", "b", " ", "\n"}
\* Characters that str.strip() removes.
Whitespace == {" ", "\n"}

\* Longest output of the child considered.
MaxOut == 4

\* All texts of at most n characters.
Texts(n) == UNION {[1..k -> Chars] : k \in 0..n}

\* str.lstrip(), str.rstrip(), str.strip()
RECURSIVE LStrip(_)
LStrip(s) ==
  IF s = << >> THEN s
  ELSE IF Head(s) \in Whitespace THEN LStrip(Tail(s)) ELSE s

RECURSIVE RStrip(_)
RStrip(s) ==
  IF s = << >> THEN s
  ELSE IF s[Len(s)] \in Whitespace THEN RStrip(SubSeq(s, 1, Len(s) - 1)) ELSE s

Strip(s) == RStrip(LStrip(s))

\* str.split("\n"): the pieces between the newlines, at least one piece.
RECURSIVE Split(_)
Split(s) ==
  LET nl == {i \in 1..Len(s) : s[i] = "\n"} IN
    IF nl = {} THEN << s >>
    ELSE LET i == CHOOSE j \in nl : \A k \in nl : j <= k IN
           << SubSeq(s, 1, i - 1) >> \o Split(SubSeq(s, i + 1, Len(s)))

\* " ".join(lines)
RECURSIVE Join(_)
Join(lines) ==
  IF lines = << >> THEN << >>
  ELSE IF Len(lines) = 1 THEN lines[1]
  ELSE lines[1] \o << " " >> \o Join(Tail(lines))

\* `if line.strip()' of the comprehension.
NonBlank(line) == Strip(line) # << >>

\* [line.strip() for line in lines]
StripEach(lines) == [i \in 1..Len(lines) |-> Strip(lines[i])]

\* Mutant of CleanOutput: the output is split and joined without the outer
\* strip() and without the `if line.strip()' filter.
CleanOutput_KeepBlank(stdout) == Join(StripEach(Split(stdout)))

\* Mutant of CleanOutput: the lines kept are joined as they are, not
\* stripped one by one.
CleanOutput_NoLineStrip(stdout) == Join(SelectSeq(Split(Strip(stdout)), NonBlank))

\* lines = [line.strip() for line in result.stdout.strip().split("\n")
\*          if line.strip()]; return " ".join(lines)
CleanOutput(stdout) == Join(StripEach(SelectSeq(Split(Strip(stdout)), NonBlank)))

\* `return ""' of `except subprocess.TimeoutExpired'.
TimeoutResult == << >>
\* `return ""' of `except Exception'.
ErrorResult == << >>

\* Exit statuses of the child considered: success and failure.
Statuses == {0, 1}

TrInit ==
  /\ SessionInit
  /\ RcIdle
  /\ LvIdle
  /\ WnIdle
  /\ tPc = "call"
  /\ tChild = "none"
  /\ tStatus = 0
  /\ tStdout \in Texts(MaxOut)
  /\ tExpired = FALSE
  /\ tRet = << >>
  /\ tText = << >>
  /\ tMode \in {"clipboard", "type"}
  /\ tClipboard = << >>
  /\ tTyped = << >>
  /\ tEmitted = << >>

\* subprocess.run starts the child (Popen); when the executable cannot be
\* launched Popen raises OSError, caught by `except Exception'.
TrLaunch ==
  /\ tPc = "call"
  /\ \/ /\ tChild' = "running"
        /\ tPc' = "wait"
        /\ UNCHANGED << tRet, tText >>
     \/ /\ tRet' = ErrorResult
        /\ tText' = ErrorResult
        /\ tPc' = "ret"
        /\ UNCHANGED tChild
  /\ UNCHANGED << tStatus, tStdout, tExpired, tMode, tClipboard, tTyped,
                  tEmitted, sessionVars, rcVars, lvVars,
                  wnVars >>

\* The child exits within the timeout: subprocess.run returns a
\* CompletedProcess whatever the exit status (no check=True, returncode is
\* not read), and the cleaned stdout is returned.
TrExit ==
  /\ tPc = "wait"
  /\ \E st \in Statuses : tStatus' = st
  /\ tChild' = "exited"
  /\ tRet' = CleanOutput(tStdout)
  /\ tText' = CleanOutput(tStdout)
  /\ tPc' = "ret"
  /\ UNCHANGED << tStdout, tExpired, tMode, tClipboard, tTyped,
                  tEmitted, sessionVars, rcVars, lvVars,
                  wnVars >>

\* Mutant of TrTimeout: TimeoutExpired is raised with the child left
\* running.
TrTimeout_NoKill ==
  /\ tPc = "wait"
  /\ tExpired' = TRUE
  /\ tRet' = TimeoutResult
  /\ tText' = TimeoutResult
  /\ tPc' = "ret"
  /\ UNCHANGED << tChild, tStatus, tStdout, tMode, tClipboard, tTyped,
                  tEmitted, sessionVars, rcVars, lvVars,
                  wnVars >>

\* The timeout expires first: subprocess.run kills the child, waits for it
\* and raises TimeoutExpired.
TrTimeout ==
  /\ tPc = "wait"
  /\ tChild' = "killed"
  /\ tExpired' = TRUE
  /\ tRet' = TimeoutResult
  /\ tText' = TimeoutResult
  /\ tPc' = "ret"
  /\ UNCHANGED << tStatus, tStdout, tMode, tClipboard, tTyped,
                  tEmitted, sessionVars, rcVars, lvVars,
                  wnVars >>

\* if text: copy_to_clipboard(text).  The sink returns True or False, or
\* raises (subprocess.run raising anything but CalledProcessError): the
\* exception is caught by `except Exception', which sets text = "" and skips
\* the rest of the try block.
TrClipboard ==
  /\ tPc = "ret"
  /\ IF tText = << >>
       THEN /\ tPc' = "finally"
            /\ UNCHANGED << tText, tClipboard >>
       ELSE /\ tClipboard' = Append(tClipboard, tText)
            /\ \E clip \in {"ok", "fail", "raise"} :
                 /\ tText' = IF clip = "raise" THEN << >> ELSE tText
                 /\ tPc' = IF clip = "raise" THEN "finally" ELSE "mode"
  /\ UNCHANGED << tChild, tStatus, tStdout, tExpired, tRet, tMode, tTyped,
                  tEmitted, sessionVars, rcVars, lvVars,
                  wnVars >>

\* if self.config.general.output_mode == "type": type_text(text)
TrType ==
  /\ tPc = "mode"
  /\ IF tMode = "type"
       THEN /\ tTyped' = Append(tTyped, tText)
            /\ \E typ \in {"ok", "fail", "raise"} :
                 tText' = IF typ = "raise" THEN << >> ELSE tText
       ELSE UNCHANGED << tTyped, tText >>
  /\ tPc' = "finally"
  /\ UNCHANGED << tChild, tStatus, tStdout, tExpired, tRet, tMode, tClipboard,
                  tEmitted, sessionVars, rcVars, lvVars,
                  wnVars >>

\* finally: cleanup_temp_file(); self.transcription_done.emit(text)
TrFinally ==
  /\ tPc = "finally"
  /\ tEmitted' = Append(tEmitted, tText)
  /\ tPc' = "done"
  /\ UNCHANGED << tChild, tStatus, tStdout, tExpired, tRet, tText, tMode,
                  tClipboard, tTyped, sessionVars, rcVars, lvVars,
                  wnVars >>

TrNext == TrLaunch \/ TrExit \/ TrTimeout \/ TrClipboard \/ TrType \/ TrFinally

TranscribeSpec == TrInit /\ [][TrNext]_vars

\* ------------------------------------------- recorder.AudioRecorder, alone
\* One recording: start(), the PyAudio callback thread delivering chunks,
\* stop().  The two threads interleave at statement level (each statement
\* runs under the interpreter lock).
\* Number of chunks PortAudio delivers.
MaxChunks == 3
\* Number of calls of stop() after which no call is made while idle.
MaxStops == 2
\* The chunks considered, sequences of bytes.
Chunks == {<< 0 >>, << 1 >>, << 0, 1 >>}

\* b"".join(frames)
RECURSIVE JoinBytes(_)
JoinBytes(fs) == IF fs = << >> THEN << >> ELSE Head(fs) \o JoinBytes(Tail(fs))

\* start(): recording = True, audio_frames = [], the temp file is created
\* and the stream is opened with _audio_callback as its callback.
RcStart ==
  /\ rPc = "new"
  /\ rFlag' = TRUE
  /\ rFrames' = << >>
  /\ rOpen' = TRUE
  /\ rPc' = "capturing"
  /\ UNCHANGED << cbPc, cbChunk, rAccepted, rDelivered, rWav, rWritten,
                  rOverlap, rObserver, rNotified, rStops, rRet,
                  sessionVars, trVars, lvVars,
                  wnVars >>

\* PortAudio calls _audio_callback(in_data, ...) on its thread, one call at
\* a time, while the stream is active: `if self.recording:' is evaluated.
CbEnter ==
  /\ rOpen
  /\ cbPc = "idle"
  /\ rDelivered < MaxChunks
  /\ rDelivered' = rDelivered + 1
  /\ \E c \in Chunks :
       IF rFlag
         THEN /\ cbPc' = "append"
              /\ cbChunk' = c
              /\ rAccepted' = Append(rAccepted, c)
         ELSE UNCHANGED << cbPc, cbChunk, rAccepted >>
  /\ UNCHANGED << rPc, rFlag, rFrames, rOpen, rWav, rWritten, rOverlap,
                  rObserver, rNotified, rStops, rRet,
                  sessionVars, trVars, lvVars,
                  wnVars >>

\* Mutant of CbAppend: the chunk is appended but level_callback is not
\* called.
CbAppend_NoNotify ==
  /\ cbPc = "append"
  /\ rFrames' = Append(rFrames, cbChunk)
  /\ cbPc' = "idle"
  /\ rOverlap' = (rOverlap \/ rPc = "stopping")
  /\ UNCHANGED << rPc, rFlag, rOpen, cbChunk, rAccepted, rDelivered, rWav,
                  rWritten, rObserver, rNotified, rStops, rRet,
                  sessionVars, trVars, lvVars,
                  wnVars >>

\* self.audio_frames.append(in_data); if self.level_callback: the level of
\* the chunk is computed and self.level_callback(level) is called; return.
CbAppend ==
  /\ cbPc = "append"
  /\ rFrames' = Append(rFrames, cbChunk)
  /\ cbPc' = "idle"
  /\ rOverlap' = (rOverlap \/ rPc = "stopping")
  /\ rNotified' = IF rObserver THEN Append(rNotified, cbChunk) ELSE rNotified
  /\ UNCHANGED << rPc, rFlag, rOpen, cbChunk, rAccepted, rDelivered, rWav,
                  rWritten, rObserver, rStops, rRet,
                  sessionVars, trVars, lvVars,
                  wnVars >>

\* stop(): `if not self.recording: return None' is passed and
\* self.recording = False is executed.
RcStopFlag ==
  /\ rPc = "capturing"
  /\ rFlag
  /\ rFlag' = FALSE
  /\ rPc' = "stopping"
  /\ rStops' = rStops + 1
  /\ UNCHANGED << rFrames, rOpen, cbPc, cbChunk, rAccepted, rDelivered, rWav,
                  rWritten, rOverlap, rObserver, rNotified, rRet,
                  sessionVars, trVars, lvVars,
                  wnVars >>

\* Mutant of RcStopStream: the stream is torn down without waiting for the
\* callback that is running.
RcStopStream_NoWait ==
  /\ rPc = "stopping"
  /\ rOpen' = FALSE
  /\ rPc' = "save"
  /\ UNCHANGED << rFlag, rFrames, cbPc, cbChunk, rAccepted, rDelivered, rWav,
                  rWritten, rOverlap, rObserver, rNotified, rStops, rRet,
                  sessionVars, trVars, lvVars,
                  wnVars >>

\* self.stream.stop_stream(); self.stream.close(); self.stream = None.
\* stop_stream (Pa_StopStream) returns once the callback in progress has
\* returned, and no callback is made afterwards.
RcStopStream ==
  /\ rPc = "stopping"
  /\ cbPc = "idle"
  /\ rOpen' = FALSE
  /\ rPc' = "save"
  /\ UNCHANGED << rFlag, rFrames, cbPc, cbChunk, rAccepted, rDelivered, rWav,
                  rWritten, rOverlap, rObserver, rNotified, rStops, rRet,
                  sessionVars, trVars, lvVars,
                  wnVars >>

\* if self.temp_file_path and self.audio_frames: the WAV file is written
\* with wf.writeframes(b"".join(self.audio_frames)); else None is returned.
RcSave ==
  /\ rPc = "save"
  /\ IF rFrames # << >>
       THEN /\ rWav' = JoinBytes(rFrames)
            /\ rWritten' = TRUE
       ELSE UNCHANGED << rWav, rWritten >>
  /\ rPc' = "stopped"
  /\ rRet' = IF rFrames # << >> THEN "Path" ELSE "None"
  /\ UNCHANGED << rFlag, rFrames, rOpen, cbPc, cbChunk, rAccepted, rDelivered,
                  rOverlap, rObserver, rNotified, rStops,
                  sessionVars, trVars, lvVars,
                  wnVars >>

\* Mutant of RcStopIdle: the early return also empties the buffer.
RcStopIdle_Resets ==
  /\ rPc \in {"new", "stopped"}
  /\ ~rFlag
  /\ rStops < MaxStops
  /\ rStops' = rStops + 1
  /\ rRet' = "None"
  /\ rFrames' = << >>
  /\ UNCHANGED << rPc, rFlag, rOpen, cbPc, cbChunk, rAccepted, rDelivered,
                  rWav, rWritten, rOverlap, rObserver, rNotified,
                  sessionVars, trVars, lvVars,
                  wnVars >>

\* stop() while not recording, before start() or after an earlier stop():
\* `if not self.recording: return None'.
RcStopIdle ==
  /\ rPc \in {"new", "stopped"}
  /\ ~rFlag
  /\ rStops < MaxStops
  /\ rStops' = rStops + 1
  /\ rRet' = "None"
  /\ UNCHANGED << rPc, rFlag, rFrames, rOpen, cbPc, cbChunk, rAccepted, rDelivered,
                  rWav, rWritten, rOverlap, rObserver, rNotified,
                  sessionVars, trVars, lvVars,
                  wnVars >>

\* A recorder as constructed, with or without a level_callback.
RcInit ==
  /\ SessionInit
  /\ TrIdle
  /\ LvIdle
  /\ WnIdle
  /\ rPc = "new"
  /\ rFlag = FALSE
  /\ rFrames = << >>
  /\ rOpen = FALSE
  /\ cbPc = "idle"
  /\ cbChunk = << >>
  /\ rAccepted = << >>
  /\ rDelivered = 0
  /\ rWav = << >>
  /\ rWritten = FALSE
  /\ rOverlap = FALSE
  /\ rObserver \in BOOLEAN
  /\ rNotified = << >>
  /\ rStops = 0
  /\ rRet = "unset"

RcNext ==
  \/ RcStart \/ CbEnter \/ CbAppend
  \/ RcStopFlag \/ RcStopStream \/ RcSave \/ RcStopIdle

RecorderSpec == RcInit /\ [][RcNext]_vars

\* ------------------------------ recorder._audio_callback, the audio level
\* The level computed for one chunk, for every chunk of up to MaxSamples
\* samples.  Samples are two's-complement words of SampleBits bits (16 in
\* the program); the arithmetic after astype(np.float32) is exact here.
SampleBits == 3
\* Longest chunk considered, in samples.
MaxSamples == 2

RECURSIVE Pow2(_)
Pow2(n) == IF n = 0 THEN 1 ELSE 2 * Pow2(n - 1)

\* The 32768.0 of the program: 2^(bits-1).
FullScale == Pow2(SampleBits - 1)
\* Raw sample words as they lie in the buffer.
Words == 0..(Pow2(SampleBits) - 1)

\* np.frombuffer(in_data, dtype=np.int16): a word read as a signed integer.
Signed(w) == IF w >= FullScale THEN w - Pow2(SampleBits) ELSE w

\* Mutant of Magnitude: the absolute value is taken in the sample's own
\* integer type, where the most negative value has no positive counterpart
\* and wraps to itself.
Magnitude_Wraps(x) == IF x = 0 - FullScale THEN x ELSE IF x < 0 THEN 0 - x ELSE x

\* .astype(np.float32) followed by np.abs: the magnitude in a type wide
\* enough for every sample.
Magnitude(x) == IF x < 0 THEN 0 - x ELSE x

\* Sum of the magnitudes of the samples of a chunk of words.
RECURSIVE SumAbs(_)
SumAbs(ws) ==
  IF ws = << >> THEN 0 ELSE Magnitude(Signed(Head(ws))) + SumAbs(Tail(ws))

LvInit ==
  /\ SessionInit
  /\ TrIdle
  /\ RcIdle
  /\ WnIdle
  /\ lvPc = "chunk"
  /\ lvChunk \in UNION {[1..n -> Words] : n \in 1..MaxSamples}
  /\ lvNum = 0
  /\ lvDen = 1

\* level = np.abs(audio_data).mean() / 32768.0, kept as the fraction
\* lvNum / lvDen = (sum of magnitudes / number of samples) / full scale.
LvCompute ==
  /\ lvPc = "chunk"
  /\ lvNum' = SumAbs(lvChunk)
  /\ lvDen' = Len(lvChunk) * FullScale
  /\ lvPc' = "level"
  /\ UNCHANGED << lvChunk, sessionVars, trVars, rcVars, wnVars >>

LvNext == LvCompute

LevelSpec == LvInit /\ [][LvNext]_vars

\* --------------------------- window.RecorderWindow, its three threads alone
\* One window inside app.exec(): the main thread runs one slot at a time,
\* the PyAudio thread runs the audio callback and the daemon thread runs
\* _transcribe_thread.  A signal emitted from another thread than the
\* receiver's is posted to the main thread's event queue (wQueue).
\* Number of chunks the audio callback delivers.
MaxLevels == 4

\* The events the other threads post: audio_signal and transcription_done.
Events == {"level", "done"}

\* Number of events e in the queue q.
RECURSIVE CountOf(_, _)
CountOf(q, e) ==
  IF q = << >> THEN 0
  ELSE (IF Head(q) = e THEN 1 ELSE 0) + CountOf(Tail(q), e)

WnInit == SessionInit /\ TrIdle /\ RcIdle /\ LvIdle /\ WnIdle

\* start_recording, fired by the single-shot timer: recording = True and
\* recorder.start() (frames emptied, stream opened).
WnStartRecording ==
  /\ wWin = "shown"
  /\ wStartTimer
  /\ wStartTimer' = FALSE
  /\ wRecording' = TRUE
  /\ wCapture' = TRUE
  /\ wFrames' = 0
  /\ UNCHANGED << wQueue, wTask, wLevels, wDone, wWin, wCloseTimer,
                  sessionVars, trVars, rcVars, lvVars >>

\* Mutant of WnAudioCallback: the level reaches the visualizer by a direct
\* call of set_audio_level on the audio thread.
WnAudioCallback_Direct ==
  /\ wCapture
  /\ wFrames < MaxLevels
  /\ wFrames' = wFrames + 1
  /\ wLevels' = wLevels + 1
  /\ UNCHANGED << wRecording, wCapture, wQueue, wTask, wDone, wWin, wStartTimer,
                  wCloseTimer, sessionVars, trVars, rcVars, lvVars >>

\* _audio_callback on the PyAudio thread while the stream is open: the chunk
\* is appended and level_callback, that is _on_audio_level, emits
\* audio_signal, which is posted to the main thread.
WnAudioCallback ==
  /\ wCapture
  /\ wFrames < MaxLevels
  /\ wFrames' = wFrames + 1
  /\ wQueue' = Append(wQueue, "level")
  /\ UNCHANGED << wRecording, wCapture, wTask, wLevels, wDone, wWin, wStartTimer,
                  wCloseTimer, sessionVars, trVars, rcVars, lvVars >>

\* stop_and_transcribe as a slot run to completion; `timer' is the state of
\* the close timer if the slot does not arm it.  Not recording: return.
\* Otherwise recording = False, recorder.stop(), and with audio the daemon
\* thread is started; without, transcription_done.emit("") is made on the
\* main thread and runs _on_transcription_done at once, which arms the
\* close timer.
WnStopAndTranscribe(timer) ==
  /\ wRecording' = FALSE
  /\ wCapture' = IF wRecording THEN FALSE ELSE wCapture
  /\ wTask' = IF wRecording /\ wFrames > 0 THEN "running" ELSE wTask
  /\ wDone' = IF wRecording /\ wFrames = 0 THEN wDone + 1 ELSE wDone
  /\ wCloseTimer' = IF wRecording /\ wFrames = 0 THEN TRUE ELSE timer

\* keyPressEvent with Escape or Space, or stop_signal emitted by a signal
\* handler on the main thread.
WnStop ==
  /\ wWin = "shown"
  /\ WnStopAndTranscribe(wCloseTimer)
  /\ UNCHANGED << wFrames, wQueue, wLevels, wWin, wStartTimer,
                  sessionVars, trVars, rcVars, lvVars >>

\* closeEvent: while recording stop_and_transcribe and event.ignore();
\* otherwise event.accept(): the window closes, app.exec() returns and the
\* process exits with its threads.
WnCloseEvent(timer) ==
  IF wRecording
    THEN /\ WnStopAndTranscribe(timer)
         /\ UNCHANGED wWin
    ELSE /\ wWin' = "closed"
         /\ wCloseTimer' = timer
         /\ UNCHANGED << wRecording, wCapture, wTask, wDone >>

\* A close request from the window system.
WnCloseRequest ==
  /\ wWin = "shown"
  /\ WnCloseEvent(wCloseTimer)
  /\ UNCHANGED << wFrames, wQueue, wLevels, wStartTimer,
                  sessionVars, trVars, rcVars, lvVars >>

\* QTimer.singleShot(100, self.close) fires.
WnCloseTimerFire ==
  /\ wWin = "shown"
  /\ wCloseTimer
  /\ WnCloseEvent(FALSE)
  /\ UNCHANGED << wFrames, wQueue, wLevels, wStartTimer,
                  sessionVars, trVars, rcVars, lvVars >>

\* _transcribe_thread on the daemon thread: transcribe and the sinks.
WnTaskRun ==
  /\ wWin = "shown"
  /\ wTask = "running"
  /\ wTask' = "finally"
  /\ UNCHANGED << wRecording, wCapture, wFrames, wQueue, wLevels, wDone, wWin,
                  wStartTimer, wCloseTimer, sessionVars, trVars, rcVars, lvVars >>

\* finally: cleanup_temp_file(); transcription_done.emit(text), posted to
\* the main thread.
WnTaskFinally ==
  /\ wWin = "shown"
  /\ wTask = "finally"
  /\ wTask' = "finished"
  /\ wQueue' = Append(wQueue, "done")
  /\ UNCHANGED << wRecording, wCapture, wFrames, wLevels, wDone, wWin,
                  wStartTimer, wCloseTimer, sessionVars, trVars, rcVars, lvVars >>

\* The event loop delivers the first posted event on the main thread:
\* audio_signal to visualizer.set_audio_level, transcription_done to
\* _on_transcription_done (recorder.cleanup(), cleanup_pid(), close timer).
WnDispatch ==
  /\ wWin = "shown"
  /\ wQueue # << >>
  /\ wQueue' = Tail(wQueue)
  /\ IF Head(wQueue) = "level"
       THEN /\ wLevels' = wLevels + 1
            /\ UNCHANGED << wDone, wCloseTimer >>
       ELSE /\ wDone' = wDone + 1
            /\ wCloseTimer' = TRUE
            /\ UNCHANGED wLevels
  /\ UNCHANGED << wRecording, wCapture, wFrames, wTask, wWin, wStartTimer,
                  sessionVars, trVars, rcVars, lvVars >>

WnNext ==
  \/ WnStartRecording \/ WnAudioCallback \/ WnStop \/ WnCloseRequest
  \/ WnCloseTimerFire \/ WnTaskRun \/ WnTaskFinally \/ WnDispatch

WindowSpec == WnInit /\ [][WnNext]_vars

\* ------------------------------------------------------------ properties
\* A session owner: has written the marker and has not exited.
Owner(p) == outcome[p] = "Claimed" /\ Alive(p)

\* The transcription thread of p is running.
ThreadActive(p) == thread[p] \in {"transcribing", "delivering", "finally"}

\* The session of p is over: the window was closed and the process exited.
Closed(p) == pc[p] = "done" /\ win[p] = "closed"

\* Process p takes a step of its own from main-thread position `at'.
Leaves(p, at) == pc[p] = at /\ pc'[p] \notin {at, "killed"}

\* C1: in every reachable state at most one live process is a session owner
\* (has claimed the marker and has not yet exited).
C1_AtMostOneOwner == Cardinality({p \in Procs : Owner(p)}) <= 1

\* C2: the claim behaves as an atomic create-if-absent of the marker: a
\* process that found no marker writes its pid only if the marker is still
\* absent, so that of two processes that both found it absent at most one
\* ends up Claimed.
C2_AtomicCreateIfAbsent ==
  [][\A p \in Procs :
       (Leaves(p, "write") /\ found[p] = "absent") => marker = NoPid]_vars

C4_FreshClaim ==
  \A p \in Procs :
    ((\A q \in Procs \ {p} : pc[q] = "idle") /\ pc[p] = "construct") =>
      /\ found[p] = "absent"
      /\ outcome[p] = "Claimed"
      /\ sigSent[p] = 0
      /\ marker = p

C4_Witness ==
  \E p \in Procs :
    /\ \A q \in Procs \ {p} : pc[q] = "idle"
    /\ pc[p] = "construct"
    /\ found[p] = "absent"
    /\ marker = p

\* C5: when the marker records a process that is not alive, claimOrSignal
\* takes the stale branch without sending a signal, deletes the marker, and
\* the caller's write_pid leaves it Claimed with the marker containing its
\* own pid.
C5_StaleReclaim ==
  [][\A p \in Procs :
       /\ (Leaves(p, "probe") /\ ~Alive(pid[p])) =>
            /\ pc'[p] = "unlink"
            /\ sigSent'[p] = 0
            /\ usr1Pending' = usr1Pending
       /\ Leaves(p, "unlink") =>
            (marker' = NoPid /\ pc'[p] = "write" /\ sigSent'[p] = 0)
       /\ (Leaves(p, "write") /\ found[p] = "stale") =>
            /\ pc'[p] = "construct"
            /\ outcome'[p] = "Claimed"
            /\ sigSent'[p] = 0
            /\ marker' = p]_vars

C5_Witness ==
  \E p \in Procs :
    /\ found[p] = "stale"
    /\ ~Alive(pid[p])
    /\ pc[p] = "construct"
    /\ outcome[p] = "Claimed"
    /\ sigSent[p] = 0
    /\ marker = p

C7_LaterStopsIgnored ==
  /\ [](\A p \in Procs : stops[p] <= 1 /\ tasks[p] <= 1)
  /\ [][\A p \in Procs :
          (ThreadActive(p) /\ (KeyPress(p) \/ CloseRequest(p) \/ SigUsr1Handler(p))) =>
            /\ pc'[p] = pc[p]
            /\ win'[p] = win[p]
            /\ thread'[p] = thread[p]
            /\ recording'[p] = recording[p]]_vars

C9_ReleaseExactlyOnce ==
  \A p \in Procs : Closed(p) => releases[p] = 1

\* C10: in every session that recorded and reaches Closed, whether or not
\* audio was captured, artifact cleanup (cleanup_temp_file), teardown
\* (recorder.cleanup) and release (cleanup_pid) all ran, and the temporary
\* audio file created by start() no longer exists.
C10_CleanupOnClose ==
  \A p \in Procs :
    (Closed(p) /\ tempFile[p] # "none") =>
      /\ tempCleaned[p] > 0
      /\ terminated[p] > 0
      /\ releases[p] > 0
      /\ tempFile[p] = "deleted"

\* C11: a terminate signal (SIGTERM or SIGINT) delivered to a session process
\* in any state after its claim leads to the marker being removed before the
\* process exits: a process that claimed the marker, received the signal and
\* is gone does not leave the marker naming it.
C11_TermReleasesMarker ==
  \A p \in Procs :
    (outcome[p] = "Claimed" /\ termCount[p] > 0 /\ ~Alive(p)) => marker # p

\* C12: a process whose construction of the recorder or the transcriber
\* fails ends without having claimed: it is not Claimed and the marker does
\* not hold its pid.
C12_ConstructFailureUnclaimed ==
  \A p \in Procs :
    pc[p] = "crashed" => (outcome[p] # "Claimed" /\ marker # p)

\* The engine run ended in a failure: timeout, launch failure or non-zero
\* exit status (the ProcessError of the specification).
TrTimedOut == tPc \notin {"call", "wait"} /\ tExpired
TrLaunchFailed == tPc \notin {"call", "wait"} /\ tChild = "none"
TrNonZeroExit == tChild = "exited" /\ tStatus # 0
\* The engine ran to a zero exit status.
TrSucceeded == tChild = "exited" /\ tStatus = 0
\* Every character of s is whitespace.
AllBlank(s) == \A i \in 1..Len(s) : s[i] \in Whitespace

\* C13: when transcription returns non-empty text, once the thread is past
\* the delivery the clipboard sink has been invoked exactly once, with
\* exactly that text, and the typing sink has been invoked (once, with that
\* text) if and only if the output mode is "type".
C13_DeliverExactlyOnce ==
  (tPc \in {"finally", "done"} /\ tRet # << >>) =>
    /\ tClipboard = << tRet >>
    /\ tTyped = IF tMode = "type" THEN << tRet >> ELSE << >>

\* C14: when transcription fails or yields empty text (timeout, process
\* error, blank output) neither sink is invoked, and the completion is
\* still reported so that the session closes.
C14_FailureNoSink ==
  (TrTimedOut \/ TrLaunchFailed \/ TrNonZeroExit
     \/ (TrSucceeded /\ AllBlank(tStdout))) =>
    /\ tClipboard = << >>
    /\ tTyped = << >>
    /\ tPc = "done" => Len(tEmitted) = 1

\* C15: when the recording is stopped with no audio captured, finalization
\* yields no artifact: no transcription thread is started, so the
\* transcriber is never invoked and no sink is invoked; the completion is
\* reported at once with an empty result, and the close of the window is
\* scheduled (or has happened).
C15_NoAudioNoTranscription ==
  \A p \in Procs :
    (stops[p] > 0 /\ frames[p] = 0) =>
      /\ tasks[p] = 0
      /\ thread[p] = "none"
      /\ text[p] = "none"
      /\ outputMode[p] = "unread"
      /\ emitted[p] = ""
      /\ closeTimer[p] \/ win[p] = "closed"

C15_Witness ==
  \E p \in Procs :
    /\ stops[p] = 1
    /\ frames[p] = 0
    /\ emitted[p] = ""
    /\ Closed(p)

\* C16: when the engine executable exits with a non-zero status or cannot be
\* launched, transcribe returns a failure carrying no text: none of the
\* process's output is returned as text or delivered to a sink.
C16_ProcessErrorNoText ==
  (TrLaunchFailed \/ TrNonZeroExit) =>
    /\ tRet = ErrorResult
    /\ tClipboard = << >>
    /\ tTyped = << >>

\* C17: when the engine runs longer than the timeout, the child process is
\* killed and transcribe returns its failure value with no text, whatever
\* the child had written.
C17_TimeoutKillsChild ==
  tExpired =>
    /\ tChild = "killed"
    /\ tRet = << >>
    /\ tText = << >>
    /\ tClipboard = << >>
    /\ tTyped = << >>

C17_Witness ==
  /\ tExpired
  /\ tChild = "killed"
  /\ ~AllBlank(tStdout)
  /\ tPc = "done"
  /\ tEmitted = << << >> >>

NewlinesOf(s) == {i \in 1..Len(s) : s[i] = "\n"}
\* The k-th line of s (k = 1 .. number of newlines + 1).
LineOf(s, k) ==
  LET nl == NewlinesOf(s)
      before(i) == Cardinality({j \in nl : j < i})
      idx == {i \in 1..Len(s) : s[i] # "\n" /\ before(i) = k - 1}
  IN  [j \in 1..Cardinality(idx) |->
         s[CHOOSE i \in idx : Cardinality({h \in idx : h < i}) = j - 1]]
Trimmed(l) ==
  LET ink == {i \in 1..Len(l) : l[i] \notin Whitespace} IN
    IF ink = {} THEN << >>
    ELSE SubSeq(l, CHOOSE i \in ink : \A j \in ink : i <= j,
                   CHOOSE i \in ink : \A j \in ink : j <= i)
RECURSIVE JoinFrom(_, _)
JoinFrom(s, k) ==
  IF k > Cardinality(NewlinesOf(s)) + 1 THEN << >>
  ELSE LET here == Trimmed(LineOf(s, k))
           rest == JoinFrom(s, k + 1)
       IN  IF here = << >> THEN rest
           ELSE IF rest = << >> THEN here
           ELSE here \o << " " >> \o rest
ExpectedText(s) == JoinFrom(s, 1)

\* C19: when the engine runs successfully, the returned text is the
\* standard output split into lines, each line trimmed, empty lines
\* discarded, and the remaining lines joined with single spaces.
C19_CleanedOutput ==
  (tPc \notin {"call", "wait"} /\ TrSucceeded) => tRet = ExpectedText(tStdout)

C19_Witness ==
  /\ TrSucceeded
  /\ tStdout = << " ", "a", "\n", "b" >>
  /\ tRet = << "a", " ", "b" >>
  /\ tPc = "done"

\* C20: for every sequence of chunks delivered between start() and stop(),
\* a chunk whose callback overlaps stop() included, the data of the written
\* artifact is the concatenation, in arrival order, of the chunks appended
\* to the buffer (those whose callback found the recorder recording), none
\* lost, duplicated or reordered, and the buffer does not change once the
\* artifact is written.
C20_ArtifactIsConcatenation ==
  /\ rPc \in {"save", "stopped"} => (rFrames = rAccepted /\ cbPc = "idle")
  /\ rWritten => (rWav = JoinBytes(rAccepted) /\ rFrames = rAccepted)
  /\ (rPc = "stopped" /\ rAccepted # << >>) => rWritten

C20_Witness ==
  /\ rWritten
  /\ rOverlap
  /\ Len(rFrames) = MaxChunks
  /\ rFrames[1] # rFrames[2]
  /\ rWav = JoinBytes(rFrames)

\* C24: every call of release() (cleanup_pid) leaves the marker absent,
\* whether it was present before or not, and raises nothing: the calling
\* process does not end in an error, also when it calls it again.
C24_ReleaseIdempotent ==
  [][\A p \in Procs :
       releases'[p] > releases[p] => (marker' = NoPid /\ pc'[p] # "crashed")]_vars

C24_Witness ==
  \E p \in Procs :
    /\ releases[p] = 3
    /\ marker = NoPid
    /\ pc[p] = "done"

\* C26: every process that constructed its AudioRecorder and has exited
\* called teardown (recorder.cleanup) exactly once.
C26_TeardownExactlyOnce ==
  \A p \in Procs :
    (pc[p] = "done" /\ win[p] # "none") => terminated[p] = 1

\* C27: the SIGUSR1 handler is installed before start_recording runs: a
\* window that is recording, or has recorded, belongs to a process whose
\* handler is installed.
C27_HandlerBeforeRecording ==
  \A p \in Procs :
    (recording[p] \/ tempFile[p] # "none") => usr1Handler[p]

C27_Witness ==
  \E p \in Procs :
    /\ recording[p]
    /\ recRecording[p]
    /\ usr1Handler[p]
    /\ pc[p] = "exec"

\* C28: a release step of a process never removes a marker that holds the
\* pid of another, live process.
C28_ReleaseKeepsPeerMarker ==
  [][\A p \in Procs :
       releases'[p] > releases[p] =>
         (marker \in {NoPid, p} \/ ~Alive(marker))]_vars

\* C29: no live owner is ever ended by the default action of a peer's stop
\* signal: a process that claimed the marker and was killed was killed by
\* SIGTERM/SIGINT.
C29_NoStopSignalWithoutHandler ==
  \A p \in Procs :
    (pc[p] = "killed" /\ outcome[p] = "Claimed") => termCount[p] > 0

\* C30: whenever a live process is recording, the marker holds its pid.
C30_RecordingOwnsMarker ==
  \A p \in Procs :
    (Alive(p) /\ recording[p]) => marker = p

\* C25: a process that deleted a stale marker claims only if the marker is
\* still absent when it writes: it never overwrites a marker written by
\* another process in the meantime.
C25_RetryFindsAbsent ==
  [][\A p \in Procs :
       (Leaves(p, "write") /\ found[p] = "stale") => marker = NoPid]_vars

\* C21: stop() returns no artifact when no chunk was appended since
\* start(); and a call of stop() while not capturing, before any start() or
\* after a previous stop(), returns no artifact and leaves the stream, the
\* buffer, the capturing flag and the file as they were.
C21_StopWithoutAudio ==
  /\ []((rPc = "stopped" /\ rFrames = << >>) => (rRet = "None" /\ ~rWritten))
  /\ [][(rStops' > rStops /\ ~rFlag) =>
          /\ rRet' = "None"
          /\ UNCHANGED << rPc, rFlag, rFrames, rOpen, rWav, rWritten >>]_vars

C21_Witness ==
  /\ rPc = "stopped"
  /\ rStops = MaxStops
  /\ rRet = "None"
  /\ rWritten
  /\ rFrames # << >>

\* C22: each chunk delivered to the callback while capturing is appended to
\* the buffer exactly once, verbatim, and causes exactly one call of the
\* registered level observer; a chunk delivered while not capturing leaves
\* the buffer unchanged and causes no call.
C22_ChunkAppendedAndNotified ==
  /\ rAccepted = rFrames \o (IF cbPc = "append" THEN << cbChunk >> ELSE << >>)
  /\ rNotified = IF rObserver THEN rFrames ELSE << >>

C22_Witness ==
  /\ rObserver
  /\ cbPc = "idle"
  /\ rDelivered = MaxChunks
  /\ Len(rFrames) = 2
  /\ rNotified = rFrames
  /\ rFrames[1] # rFrames[2]

\* C23: for every chunk of signed samples the level mean(|sample|) / full
\* scale lies in [0, 1]; it is 0 for an all-zero chunk and exactly 1, not
\* more, for a chunk whose samples are all the most negative value.
C23_LevelInUnitInterval ==
  lvPc = "level" =>
    /\ 0 <= lvNum
    /\ lvNum <= lvDen
    /\ (\A i \in 1..Len(lvChunk) : lvChunk[i] = 0) => lvNum = 0
    /\ (\A i \in 1..Len(lvChunk) : Signed(lvChunk[i]) = 0 - FullScale) => lvNum = lvDen

C23_Witness ==
  /\ lvPc = "level"
  /\ Len(lvChunk) = MaxSamples
  /\ \A i \in 1..Len(lvChunk) : Signed(lvChunk[i]) = 0 - FullScale
  /\ lvNum = lvDen

\* C31: once an invocation has returned SignaledExisting, the owner it
\* signalled is eventually out of Recording for good: the stop signal is not
\* lost, also when it arrives before the owner has begun recording.
C31_StopSignalNotLost ==
  \A p \in Procs :
    (\E q \in Procs : outcome[q] = "SignaledExisting" /\ pid[q] = p)
      ~> [](~recording[p])

\* The part of a process's state that only slots and handlers of the main
\* (controller) thread write.
ControllerState(p) ==
  << pc[p], win[p], recording[p], startTimer[p], closeTimer[p], stoppedBy[p],
     stops[p], tasks[p], terminated[p], releases[p] >>

\* C32: transcribe() runs only in the background thread, never in a step of
\* the controller or of the audio callback: the step in which it returns is
\* a step of a started thread that leaves the controller's state, the marker
\* and the frames alone; the thread's completion only queues
\* transcription_done, and _on_transcription_done runs later, in a step of
\* the event loop that takes the queued event.
C32_TranscribeInBackground ==
  /\ [][\A p \in Procs :
          (text'[p] # text[p] /\ text[p] = "none") =>
            /\ thread[p] = "transcribing" /\ tasks[p] = 1
            /\ ControllerState(p)' = ControllerState(p)
            /\ frames'[p] = frames[p] /\ marker' = marker]_vars
  /\ [][\A p \in Procs :
          (thread[p] = "finally" /\ thread'[p] = "finished") =>
            /\ doneQueued'[p]
            /\ ControllerState(p)' = ControllerState(p)
            /\ marker' = marker]_vars
  /\ [][\A p \in Procs :
          (tasks[p] > 0 /\ terminated'[p] > terminated[p]) =>
            /\ pc[p] = "exec"
            /\ doneQueued[p] /\ ~doneQueued'[p]
            /\ thread'[p] = thread[p]]_vars

C32_Witness ==
  \E p \in Procs :
    /\ tasks[p] = 1
    /\ thread[p] = "finished"
    /\ text[p] = "t"
    /\ ~doneQueued[p]
    /\ terminated[p] = 1
    /\ closeTimer[p]

\* C34: a signal handler (sigusr1_handler, sigterm_handler) does nothing but
\* enqueue a stop event: the step in which the handler runs leaves the PID
\* file, the window's state and the recorder as they are.
C34_HandlersOnlyEnqueue ==
  [][\A p \in Procs :
       (SigUsr1Handler(p) \/ SigTermHandler(p)) =>
         /\ marker' = marker
         /\ releases'[p] = releases[p]
         /\ recording'[p] = recording[p]
         /\ win'[p] = win[p]
         /\ recRecording'[p] = recRecording[p]
         /\ stream'[p] = stream[p]
         /\ stops'[p] = stops[p]]_vars

\* C35: a process to which SIGTERM or SIGINT has been delivered, in any
\* state, eventually exits without any further input from outside.
C35_TermLeadsToExit ==
  \A p \in Procs :
    (termCount[p] > 0 /\ ~termPending[p]) ~> ~Alive(p)

Phase(p) ==
  IF win[p] = "closed" THEN 5
  ELSE IF recording[p] THEN 1
  ELSE IF stops[p] = 0 THEN 0
  ELSE IF thread[p] = "transcribing" THEN 3
  ELSE 4

C38_ClaimNeverRaises ==
  \A p \in Procs : pc[p] = "crashed" => outcome[p] # "none"

\* C39: the sinks never raise into _transcribe_thread: the thread ends its
\* try block normally, so the text it reports is the text transcribe
\* returned, and in type mode a clipboard sink that was invoked, whatever
\* its result, is followed by the typing sink.
C39_SinksNeverRaise ==
  tPc = "done" =>
    /\ tEmitted = << tRet >>
    /\ (tMode = "type" /\ tClipboard # << >>) => tTyped # << >>

\* C40: in a session that received no SIGTERM or SIGINT, cleanup_pid() is
\* not called while the transcription thread still has the transcription or
\* the sinks ahead of it: delivery precedes the release of the PID file.
C40_DeliveryBeforeRelease ==
  [][\A p \in Procs :
       (termCount[p] = 0 /\ releases'[p] > releases[p]) =>
         thread[p] \notin {"transcribing", "delivering"}]_vars

\* What the slots of the main thread write: the window's state, its timers
\* and what the slots fed by posted events have done.
WnSessionState ==
  << wRecording, wWin, wStartTimer, wCloseTimer, wLevels, wDone >>

\* C33: only steps of the main thread write the session state: a step of
\* the audio callback or of the transcription thread leaves it alone and at
\* most appends one event to the main thread's queue; the main thread takes
\* the posted events one at a time, in posting order, a level event only
\* updating the visualizer; no level or completion reaches the main thread
\* otherwise.
C33_OnlyControllerWrites ==
  /\ [][(WnAudioCallback \/ WnTaskRun \/ WnTaskFinally) =>
          /\ WnSessionState' = WnSessionState
          /\ wQueue' = wQueue \/ \E e \in Events : wQueue' = Append(wQueue, e)]_vars
  /\ [][(wQueue # << >> /\ wQueue' = Tail(wQueue)) =>
          /\ wLevels' + wDone' = wLevels + wDone + 1
          /\ Head(wQueue) = "level" =>
               (wLevels' = wLevels + 1 /\ wRecording' = wRecording /\ wWin' = wWin
                  /\ wCloseTimer' = wCloseTimer /\ wTask' = wTask)]_vars
  /\ [](wWin = "shown" => wFrames = wLevels + CountOf(wQueue, "level"))
  /\ [](wTask # "none" =>
          wDone = IF wTask = "finished" /\ CountOf(wQueue, "done") = 0 THEN 1 ELSE 0)

C33_Witness ==
  /\ wTask = "finished"
  /\ wQueue = << >>
  /\ wLevels = MaxLevels
  /\ wDone = 1
  /\ wWin = "closed"

====
